---- MODULE Spec2Model ----
(***************************************************************************)
(* Model of the airtable Go client: the Table facade (Get, List, Create,  *)
(* Update, Delete), its argument validation, the pagination loop of List  *)
(* and the decoding of records, in particular of FormulaResult.           *)
(*                                                                         *)
(* JSON values on the wire are records [t, v]: t is the JSON type and v   *)
(* the text of the value.  A Go panic and log.Fatal are outcomes of a     *)
(* call ("panic", "fatal"); after log.Fatal the process has exited.       *)
(***************************************************************************)
EXTENDS Integers, Sequences, FiniteSets, TLC

(* ------------------------------ bounds -------------------------------- *)

\* pages the service serves at most within one List invocation
MaxPages == 2

\* records the caller's collection holds at most when List is called
MaxPrev == 1

\* entries of the sort list of an Options value, at most
MaxSort == 2

\* entries of the field-selection list of an Options value, at most
MaxSelect == 2

\* entries of the map of data passed to NewRecord, at most
MaxData == 3

\* members of the Fields of a record type, at most
MaxMembers == 2

(* --------------------------- JSON wire values ------------------------- *)

Absent == [t |-> "absent", v |-> ""]

JNull == [t |-> "null", v |-> ""]

JStr(s) == [t |-> "str", v |-> s]

JNum(n) == [t |-> "num", v |-> n]

JBool(b) == [t |-> "bool", v |-> b]

\* a JSON object with a string member `error`
JErrObj(e) == [t |-> "errobj", v |-> e]

\* a JSON object without a string member `error`
JObj == [t |-> "obj", v |-> ""]

\* the nil pointer
Nil == "<nil>"

\* the zero time.Time
ZeroTime == "0001-01-01T00:00:00Z"

(* ----------------------------- FormulaResult -------------------------- *)

\* type FormulaResult struct { Number *float64; String *string; Error *string }
ZeroFormula == [Number |-> Nil, String |-> Nil, Error |-> Nil]

\* FormulaResult.UnmarshalJSON with the cases of the type switch exchanged:
\* a string is stored as the number and a number as the string.
UnmarshalJSONSwapped(f, w) ==
    CASE w.t = "str" -> [err |-> "nil", f |-> [f EXCEPT !.Number = w.v]]
      [] w.t = "num" -> [err |-> "nil", f |-> [f EXCEPT !.String = w.v]]
      [] w.t = "errobj" -> [err |-> "nil", f |-> [f EXCEPT !.Error = w.v]]
      [] w.t = "obj" -> [err |-> "panic", f |-> f]
      [] w.t = "null" -> [err |-> "panic", f |-> f]
      [] OTHER -> [err |-> "fatal", f |-> f]

\* FormulaResult.UnmarshalJSON: the outcome and the receiver afterwards.
\* Only the pointer of the wire value's type is assigned; the other two
\* pointers keep what they held.  An object without a string `error` panics.
\* A wire null leaves the local `i` a nil pointer, which the type switch
\* dereferences (panic).  Any other type reaches log.Fatal.
UnmarshalJSON(f, w) ==
    CASE w.t = "str" -> [err |-> "nil", f |-> [f EXCEPT !.String = w.v]]
      [] w.t = "num" -> [err |-> "nil", f |-> [f EXCEPT !.Number = w.v]]
      [] w.t = "errobj" -> [err |-> "nil", f |-> [f EXCEPT !.Error = w.v]]
      [] w.t = "obj" -> [err |-> "panic", f |-> f]
      [] w.t = "null" -> [err |-> "panic", f |-> f]
      [] OTHER -> [err |-> "fatal", f |-> f]

\* FormulaResult.Value: (nil, false) when Error is set, else the string when
\* String is set, else *f.Number, which is a nil pointer dereference (panic)
\* when Number is not set either.
Value(f) ==
    IF f.Error # Nil THEN [v |-> Nil, ok |-> FALSE, err |-> "nil"]
    ELSE IF f.String # Nil THEN [v |-> f.String, ok |-> TRUE, err |-> "nil"]
    ELSE IF f.Number # Nil THEN [v |-> f.Number, ok |-> TRUE, err |-> "nil"]
    ELSE [v |-> Nil, ok |-> FALSE, err |-> "panic"]

(* ------------------------- argument validation ------------------------ *)

\* The type of an argument as reflect sees it: whether it is a pointer, the
\* kind it points to, the element kind when that is a slice, and the kinds of
\* the members Fields and ID of the struct ("absent" when there is none).
Shape(ptr, kind, elem, fields, id) ==
    [ptr |-> ptr, kind |-> kind, elem |-> elem, fields |-> fields, id |-> id]

\* *struct{ airtable.Record; Fields struct{...} }
ValidRecord == Shape(TRUE, "struct", "", "struct", "string")

\* *[]struct{ airtable.Record; Fields struct{...} }
ValidList == Shape(TRUE, "slice", "struct", "struct", "string")

\* the record arguments of TestRecordArgValidation, and a valid one
RecordArgs ==
    { ValidRecord,
      Shape(FALSE, "string", "", "absent", "absent"),
      Shape(TRUE, "string", "", "absent", "absent"),
      Shape(TRUE, "struct", "", "absent", "absent"),
      Shape(TRUE, "struct", "", "string", "absent"),
      Shape(TRUE, "struct", "", "struct", "absent"),
      Shape(TRUE, "struct", "", "struct", "bool") }

\* the arguments the caller of Spec passes to Get, Update, Create and Delete:
\* a record, a struct without Fields, a struct whose ID is a bool
CallerArgs ==
    { ValidRecord,
      Shape(TRUE, "struct", "", "absent", "absent"),
      Shape(TRUE, "struct", "", "struct", "bool") }

\* the list arguments of TestListArgValidation, and a valid one
ListArgs ==
    { ValidList,
      Shape(FALSE, "string", "", "absent", "absent"),
      Shape(TRUE, "string", "", "absent", "absent"),
      Shape(TRUE, "slice", "string", "absent", "absent"),
      Shape(TRUE, "slice", "struct", "absent", "absent"),
      Shape(TRUE, "slice", "struct", "string", "absent"),
      Shape(TRUE, "slice", "struct", "struct", "absent"),
      Shape(TRUE, "slice", "struct", "struct", "bool") }

\* a nil interface value: reflect.TypeOf gives the nil Type for it
NilArg == Shape(FALSE, "nil", "", "absent", "absent")

\* the member kinds of the struct types that are passed to the validation
StructMembers == {"absent", "string", "struct", "map"} \X {"absent", "string", "bool", "int"}

\* the arguments of the validation: nil, a string, a struct, a slice, and
\* pointers to a string, to a struct, and to slices of strings, of structs and
\* of pointers
AnyArgs ==
    { NilArg,
      Shape(FALSE, "string", "", "absent", "absent"),
      Shape(FALSE, "slice", "string", "absent", "absent"),
      Shape(TRUE, "string", "", "absent", "absent"),
      Shape(TRUE, "slice", "string", "absent", "absent"),
      Shape(TRUE, "slice", "ptr", "absent", "absent") }
      \cup { Shape(FALSE, "struct", "", m[1], m[2]) : m \in StructMembers }
      \cup { Shape(TRUE, "struct", "", m[1], m[2]) : m \in StructMembers }
      \cup { Shape(TRUE, "slice", "struct", m[1], m[2]) : m \in StructMembers }

\* the runtime error of a method call on the nil reflect.Type
NilDereference == "runtime error: invalid memory address or nil pointer dereference"

\* validateRecordArg: "" when the argument passes, else the message of the
\* error it panics with.  typ.Kind() on the Type of a nil interface value is a
\* nil pointer dereference.
validateRecordArg(a) ==
    IF a.kind = "nil" THEN NilDereference
    ELSE IF ~a.ptr THEN "airtable type error: recordPtr must be a pointer"
    ELSE IF a.kind # "struct"
      THEN "airtable type error: recordPtr must point to a struct"
    ELSE IF a.fields = "absent"
      THEN "airtable type error: recordPtr must point to a struct with field 'Fields'"
    ELSE IF a.fields # "struct"
      THEN "airtable type error: recordPtr must point to a struct with field 'Fields' that is a struct"
    ELSE IF a.id = "absent"
      THEN "airtable type error: recordPtr must point to a struct with field 'ID'"
    ELSE IF a.id # "string"
      THEN "airtable type error: recordPtr must point to a struct with field 'ID' that is a string"
    ELSE ""

\* validateListArg: "" when the argument passes, else the message of the
\* error it panics with.
validateListArg(a) ==
    IF a.kind = "nil" THEN NilDereference
    ELSE IF ~a.ptr THEN "airtable type error: listPtr must be a pointer"
    ELSE IF a.kind # "slice"
      THEN "airtable type error: listPtr must point to a slice"
    ELSE IF a.elem # "struct"
      THEN "airtable type error: listPtr must point to a slice of structs"
    ELSE IF a.fields = "absent"
      THEN "airtable type error: listPtr must point to a slice of structs with field 'Fields'"
    ELSE IF a.fields # "struct"
      THEN "airtable type error: listPtr must point to a slice of structs with field 'Fields' that is a struct"
    ELSE IF a.id = "absent"
      THEN "airtable type error: listPtr must point to a slice of structs with field 'ID'"
    ELSE IF a.id # "string"
      THEN "airtable type error: listPtr must point to a slice of structs with field 'ID' that is a string"
    ELSE ""

(* ------------------------------- records ------------------------------ *)

\* the name of the table the Table value operates against
TableName == "Main"

\* record identifiers the service assigns
IDs == {"rec1", "rec2"}

\* a createdTime the service sends, and the time.Time it parses to (a
\* time.Time is written as its RFC 3339 text)
T1 == "2020-01-01T00:00:00Z"

\* values of the string member Fields.Name
Names == {"", "a"}

\* type R struct { airtable.Record; Fields struct { Name string } }
\* airtable.Record is struct { ID string; CreatedTime time.Time }
Records == [ID : IDs \cup {""}, CreatedTime : {ZeroTime, T1}, Fields : [Name : Names]]

ZeroRecord == [ID |-> "", CreatedTime |-> ZeroTime, Fields |-> [Name |-> ""]]

\* the body of a response: every member a response of the service may carry.
\* `records` is a sequence of single-record envelopes.
Body(error, id, createdTime, name, deleted, records, offset) ==
    [error |-> error, id |-> id, createdTime |-> createdTime,
     fields |-> [Name |-> name], deleted |-> deleted,
     records |-> records, offset |-> offset]

\* a single-record envelope {id, fields: {Name}, createdTime}
Envelope(id, name, createdTime) ==
    Body(Absent, id, createdTime, name, Absent, <<>>, Absent)

\* encoding/json storing wire value w into a string that holds cur: a JSON
\* string is stored; a missing member and null leave the string alone; any
\* other type leaves it alone and records an UnmarshalTypeError, after which
\* decoding goes on.
decodeString(cur, w) ==
    CASE w.t = "str" -> [val |-> w.v, err |-> FALSE]
      [] w.t \in {"absent", "null"} -> [val |-> cur, err |-> FALSE]
      [] OTHER -> [val |-> cur, err |-> TRUE]

\* the JSON numbers of this model that are integer literals, with the int
\* strconv.ParseInt gives for each
IntegerLiterals == [x \in {"0", "7", "12", "-2"} |->
    CASE x = "0" -> 0 [] x = "7" -> 7 [] x = "12" -> 12 [] x = "-2" -> 0 - 2]

\* encoding/json storing wire value w into an int that holds cur: the text of
\* a JSON number goes through strconv.ParseInt, which takes an integer literal
\* and refuses any other number; a refused number and a value of another type
\* leave the int alone and record an UnmarshalTypeError; a missing member and
\* null leave the int alone.
decodeInt(cur, w) ==
    CASE w.t = "num" /\ w.v \in DOMAIN IntegerLiterals -> [val |-> IntegerLiterals[w.v], err |-> FALSE]
      [] w.t \in {"absent", "null"} -> [val |-> cur, err |-> FALSE]
      [] OTHER -> [val |-> cur, err |-> TRUE]

\* json.Unmarshal of the `fields` of a response into the Fields of an
\* UpdateTestRecord, struct { Name string; Random int }: each member is
\* decoded, and the first UnmarshalTypeError is returned at the end
decodeNumberFields(f, w) ==
    LET name == decodeString(f.Name, w.Name)
        random == decodeInt(f.Random, w.Random)
    IN  [fields |-> [Name |-> name.val, Random |-> random.val],
         err |-> IF name.err \/ random.err THEN "decode error" ELSE "nil"]

\* time.Time.UnmarshalJSON on wire value w, into a time that holds cur: null
\* is a no-op, an RFC 3339 string is parsed, anything else is an error, which
\* (coming from an Unmarshaler) ends the decoding at once.
decodeTime(cur, w) ==
    CASE w.t = "str" /\ w.v = T1 -> [val |-> T1, err |-> FALSE]
      [] w.t \in {"absent", "null"} -> [val |-> cur, err |-> FALSE]
      [] OTHER -> [val |-> cur, err |-> TRUE]

\* json.Unmarshal(bytes, recordPtr) that finds no member of the struct for the
\* wire's `id`
decodeRecordWithoutID(r, w) ==
    LET name == decodeString(r.Fields.Name, w.fields.Name)
        ct == decodeTime(r.CreatedTime, w.createdTime)
    IN  [rec |-> [ID |-> r.ID, CreatedTime |-> ct.val, Fields |-> [Name |-> name.val]],
         err |-> IF name.err \/ ct.err THEN "decode error" ELSE "nil"]

\* json.Unmarshal(bytes, recordPtr) for a single-record envelope whose members
\* come in the order id, fields, createdTime.  Members are matched to the
\* struct's ID, Fields and CreatedTime (case-insensitively); a member the wire
\* does not carry leaves the struct's value as it was.
decodeRecord(r, w) ==
    LET id == decodeString(r.ID, w.id)
        name == decodeString(r.Fields.Name, w.fields.Name)
        ct == decodeTime(r.CreatedTime, w.createdTime)
    IN  [rec |-> [ID |-> id.val, CreatedTime |-> ct.val, Fields |-> [Name |-> name.val]],
         err |-> IF id.err \/ name.err \/ ct.err THEN "decode error" ELSE "nil"]

\* json.Unmarshal of the `records` array into the Records slice of a fresh
\* response container: one fresh element per wire record, in wire order; the
\* array is left where an element's Unmarshaler fails.
RECURSIVE decodeRecords(_)
decodeRecords(ws) ==
    IF ws = <<>> THEN [recs |-> <<>>, err |-> "nil"]
    ELSE LET d == decodeRecord(ZeroRecord, Head(ws))
             aborted == decodeTime(ZeroTime, Head(ws).createdTime).err
             rest == IF aborted THEN [recs |-> <<>>, err |-> "nil"]
                     ELSE decodeRecords(Tail(ws))
         IN  [recs |-> <<d.rec>> \o rest.recs,
              err |-> IF d.err # "nil" THEN d.err ELSE rest.err]

(* ------------------------- requests and responses --------------------- *)

\* the list cursors the service hands out
Cursors == {"itr1", "itr2"}

\* a struct tag without the key json
NoTag == "<no tag>"

\* the Fields of the record type of the list, as reflect sees them: the
\* members and the json tag each carries (MainTestRecord: When is tagged
\* "When?", Rating and Name have no tag)
FieldsType == [When |-> "When?", Rating |-> NoTag, Name |-> NoTag]

\* log.Fatalf has ended the process: there is no value
Fatal == "<fatal>"

\* getFieldName that sends the name as it is when the type has no such member
getFieldNameLenient(n, t) ==
    IF n \notin DOMAIN t THEN n
    ELSE IF t[n] # NoTag THEN t[n]
    ELSE n

\* getFieldName that does not look at the json tag
getFieldNameNoTag(n, t) == IF n \notin DOMAIN t THEN Fatal ELSE n

\* getFieldName(n, t): log.Fatalf when Fields has no member n; else the
\* member's json tag when it has one, and n when it has none.
getFieldName(n, t) ==
    IF n \notin DOMAIN t THEN Fatal
    ELSE IF t[n] # NoTag THEN t[n]
    ELSE n

\* a filter formula
Formula1 == "{autonumber} > 2"

\* e(s), url.QueryEscape, on the strings of this model: "?", "{", "}" and ">"
\* are percent-escaped and a space becomes "+"; the other names, the cursors
\* and the directions consist of letters and digits, which stay.
e(s) ==
    CASE s = "When?" -> "When%3F"
      [] s = Formula1 -> "%7Bautonumber%7D+%3E+2"
      [] OTHER -> s

\* e(fmt.Sprintf("sort[%d][field]", i)), and the same for direction
sortKey(i, what) == "sort%5B" \o ToString(i) \o "%5D%5B" \o what \o "%5D"

\* e(fmt.Sprintf("fields[%d]", i))
fieldsKey(i) == "fields%5B" \o ToString(i) \o "%5D"

\* Encode that leaves the pagination cursor out of the query
offsetPartDropped(o) == <<>>

\* the part of the query for the pagination cursor.  (List writes the cursor
\* to options.offset; the Encode at hand reads it as o.Offset.)
offsetPart(o) == IF o.offset # "" THEN << <<"offset", e(o.offset)>> >> ELSE <<>>

\* the part for the typecast flag
typecastPart(o) == IF o.typecast THEN << <<"typecast", "true">> >> ELSE <<>>

\* the part for the filter formula
filterPart(o) == IF o.filter # "" THEN << <<"filterByFormula", e(o.filter)>> >> ELSE <<>>

\* the part for the view name
viewPart(o) == IF o.view # "" THEN << <<"view", e(o.view)>> >> ELSE <<>>

\* the part for the max-records cap
maxRecordsPart(o) ==
    IF o.maxRecords # 0 THEN << <<"maxRecords", ToString(o.maxRecords)>> >> ELSE <<>>

\* the loop over o.Sort with the entries numbered from 1
sortPartsFromOne(o) ==
    [k \in 1..(2 * Len(o.sort)) |->
        LET i == (k + 1) \div 2
        IN  IF k % 2 = 1
            THEN <<sortKey(i, "field"), e(getFieldName(o.sort[i][1], FieldsType))>>
            ELSE <<sortKey(i, "direction"), e(o.sort[i][2])>>]

\* the loop over o.Sort: for entry i (from 0) the two parts
\* sort[i][field]=<resolved name> and sort[i][direction]=<direction>
sortParts(o) ==
    [k \in 1..(2 * Len(o.sort)) |->
        LET i == (k + 1) \div 2
        IN  IF k % 2 = 1
            THEN <<sortKey(i - 1, "field"), e(getFieldName(o.sort[i][1], FieldsType))>>
            ELSE <<sortKey(i - 1, "direction"), e(o.sort[i][2])>>]

\* the loop over o.Fields: for entry i (from 0) the part fields[i]=<resolved name>
fieldParts(o) ==
    [i \in 1..Len(o.fields) |->
        <<fieldsKey(i - 1), e(getFieldName(o.fields[i], FieldsType))>>]

\* Encode does not return: a getFieldName of its loops has ended the process
encodeExits(o) ==
    \/ \E i \in 1..Len(o.sort) : getFieldName(o.sort[i][1], FieldsType) = Fatal
    \/ \E i \in 1..Len(o.fields) : getFieldName(o.fields[i], FieldsType) = Fatal

\* Options.Encode with the field-selection keys in front
EncodeFieldsFirst(o) ==
    fieldParts(o) \o offsetPart(o) \o typecastPart(o) \o filterPart(o) \o viewPart(o)
        \o maxRecordsPart(o) \o sortParts(o)

\* Options.Encode: the parts of the query string, which strings.Join(q, "&")
\* joins; each part is a pair <<key, value>> standing for key=value.
Encode(o) ==
    offsetPart(o) \o typecastPart(o) \o filterPart(o) \o viewPart(o)
        \o maxRecordsPart(o) \o sortParts(o) \o fieldParts(o)

\* Options{}
EmptyOptions ==
    [offset |-> "", typecast |-> FALSE, filter |-> "", view |-> "", maxRecords |-> 0,
     sort |-> <<>>, fields |-> <<>>]

\* Table.makePath: the table's name, joined with the id when there is one.
makePath(id) == IF id = "" THEN <<TableName>> ELSE <<TableName, id>>

\* json.Marshal of a FormulaResult: the type has no MarshalJSON, so it is
\* written as the struct it is, the object {"Number": .., "String": ..,
\* "Error": ..} of its three pointers (null when nil).  Whatever they hold, this
\* is an object that has no member `error`.
marshalFormula(f) == JObj

\* json.Marshal of the Fields member: an object with one member per member of
\* the struct, a string member as a JSON string
marshalFields(f) ==
    [m \in DOMAIN f |-> IF m = "Formula" THEN marshalFormula(f[m]) ELSE JStr(f[m])]

\* makeJSONBody with the record's ID next to its fields
makeJSONBodyWithID(r) == << [fields |-> marshalFields(r.Fields), id |-> JStr(r.ID)] >>

\* makeJSONBody: the envelope {"fields": <json.Marshal of the Fields member>}
makeJSONBody(r) == << [fields |-> marshalFields(r.Fields)] >>

\* http.NoBody
NoBody == <<>>

\* getID: the ID member of the record
getID(r) == r.ID

\* what Client.RequestWithBody hands to the HTTP client
Req(method, path, query, body) ==
    [method |-> method, path |-> path, query |-> query, body |-> body]

\* what the HTTP client gives back: fail is an error of HTTPClient.Do or of
\* reading the body
Resp(fail, body) == [fail |-> fail, body |-> body]

EmptyBody == Body(Absent, Absent, Absent, Absent, Absent, <<>>, Absent)

\* checkErrorResponse that takes only an object for an error
checkErrorResponseObjects(b) == b.error.t \in {"obj", "errinfo"}

\* checkErrorResponse: an error when the body's `error` member is non-null
checkErrorResponse(b) == b.error.t \notin {"absent", "null"}

\* an error object of the service, {"type": .., "message": ..}
JErrInfo(type, message) == [t |-> "errinfo", v |-> message, type |-> type]

\* fmt.Errorf("%s", generic.Error): the text of the error, in pieces.  A string
\* is printed as it is, a map as map[key:value ...] with its keys in order, and
\* a value that is neither with the %!s(type=value) of a wrong verb.
Sprint(w) ==
    CASE w.t = "str" -> <<w.v>>
      [] w.t = "errinfo" -> <<"map[message:", w.v, " type:", w.type, "]">>
      [] w.t = "obj" -> <<"map[]">>
      [] w.t = "num" -> <<"%!s(float64=", w.v, ")">>
      [] w.t = "bool" -> <<"%!s(bool=", w.v, ")">>

\* the client's settings: RootURL, Version and BaseID
RootURL == "https://api.airtable.com"

Version == "v0"

BaseID == "appTest"

\* Client.makeURL: RootURL/Version/BaseID/resource?query
makeURL(resource, query) ==
    [root |-> RootURL, version |-> Version, base |-> BaseID,
     resource |-> resource, query |-> query]

\* ErrClientRequest{Err, URL, Method}
ErrClientRequest(err, url, method) == [Err |-> err, URL |-> url, Method |-> method]

\* the nil error
NoError == [Err |-> <<>>]

\* RequestWithBody that returns an error only when the exchange failed
RequestErrOfExchange(resp) == resp.fail

\* error (the exchange failed, or the body is an error envelope)
RequestErr(resp) == resp.fail \/ checkErrorResponse(resp.body)

\* Client.RequestWithBody(method, endpoint, options, body) with the query
\* options.Encode() and the response of the HTTP client: the bytes and the
\* error it returns.  A failed exchange gives no bytes; an error envelope
\* gives the bytes and an ErrClientRequest with the text of `error`.
RequestWithBody(method, endpoint, query, resp) ==
    LET url == makeURL(endpoint, query)
    IN  IF resp.fail
        THEN [bytes |-> <<>>, err |-> ErrClientRequest(<<"transport">>, url, method)]
        ELSE IF checkErrorResponse(resp.body)
        THEN [bytes |-> <<resp.body>>,
              err |-> ErrClientRequest(Sprint(resp.body.error), url, method)]
        ELSE [bytes |-> <<resp.body>>, err |-> NoError]

\* responses that make any request return an error
FailedResponses ==
    { Resp(TRUE, EmptyBody),
      Resp(FALSE, Body(JStr("NOT_FOUND"), Absent, Absent, Absent, Absent, <<>>, Absent)),
      Resp(FALSE, Body(JObj, Absent, Absent, Absent, Absent, <<>>, Absent)) }

WireIDs == {Absent, JStr("rec1")}

WireNames == {Absent, JNull, JStr("a")}

WireTimes == {Absent, JStr(T1), JStr("yesterday")}

\* single-record responses to Get and Create
RecordResponses ==
    { Resp(FALSE, Envelope(i, n, t)) : i \in WireIDs, n \in WireNames, t \in WireTimes }

\* responses to Delete: {deleted, id}
DeleteResponses ==
    { Resp(FALSE, Body(Absent, i, Absent, Absent, d, <<>>, Absent)) :
        i \in {Absent, JStr("rec1")},
        d \in {Absent, JBool("true"), JBool("false"), JStr("yes")} }

W1 == Envelope(JStr("rec1"), JStr("a"), JStr(T1))

W2 == Envelope(JStr("rec2"), Absent, Absent)

\* a record whose createdTime does not parse
W3 == Envelope(JStr("rec1"), JStr("a"), JStr("yesterday"))

WireOffsets == {Absent} \cup {JStr(c) : c \in Cursors}

\* a list page {records, offset}
Page(records, offset) == Body(Absent, Absent, Absent, Absent, Absent, records, offset)

\* the pages the service of ListSpec serves
ListPages ==
    { Page(ws, o) : ws \in {<<>>, <<W1>>, <<W1, W2>>, <<W2, W1>>, <<W1, W3>>},
                    o \in WireOffsets }

\* the pages the service of Spec serves
FewPages == { Page(ws, o) : ws \in {<<W1>>, <<W3>>}, o \in {Absent, JStr("itr1")} }

\* getOffset: the Offset member of the response container, a string
getOffset(page) == decodeString("", page.offset).val

\* appendRecordsToList that sets the list to the container's Records
appendRecordsToListReplace(l, records) == records

\* appendRecordsToList with the operands of AppendSlice exchanged
appendRecordsToListFront(l, records) == records \o l

\* appendRecordsToList: the list followed by the container's Records
appendRecordsToList(l, records) == l \o records

\* markAsDeleted without the reset of CreatedTime
markAsDeletedIDOnly(r) == [r EXCEPT !.ID = ""]

\* markAsDeleted: ID and CreatedTime of the record set to their zero values
\* (the record type embeds airtable.Record, so both members exist)

markAsDeleted(r) == [r EXCEPT !.ID = "", !.CreatedTime = ZeroTime]

\* json.Unmarshal(res, &deleted) into deleteResponse{Deleted bool; ID string}
decodeDelete(b) ==
    LET id == decodeString("", b.id)
        del == CASE b.deleted.t = "bool" -> [val |-> b.deleted.v = "true", err |-> FALSE]
                 [] b.deleted.t \in {"absent", "null"} -> [val |-> FALSE, err |-> FALSE]
                 [] OTHER -> [val |-> FALSE, err |-> TRUE]
    IN  [Deleted |-> del.val, err |-> id.err \/ del.err]

\* json.Unmarshal of a single-record envelope into an argument that is not a
\* pointer to a record struct: whether it returns an error.  A non-pointer is
\* an InvalidUnmarshalError; an object into a string, the `fields` object into
\* a Fields that is no struct, and a string id into an ID that is no string
\* are UnmarshalTypeErrors; a member the struct lacks is skipped.
unmarshalOther(a, b) ==
    \/ ~a.ptr
    \/ a.kind # "struct"
    \/ a.fields \notin {"absent", "struct"}
    \/ a.id \notin {"absent", "string"} /\ b.id.t \notin {"absent", "null"}

(* ------------------------------- NewRecord ---------------------------- *)

\* the Go types of the values and members NewRecord meets, with the kind
\* reflect gives for each and whether the type is a named (defined) one; the
\* type of the nil interface value has the kind Invalid
GoTypes ==
    [string |-> [name |-> "string", kind |-> "string", named |-> TRUE],
     bool |-> [name |-> "bool", kind |-> "bool", named |-> TRUE],
     int |-> [name |-> "int", kind |-> "int", named |-> TRUE],
     Rating |-> [name |-> "airtable.Rating", kind |-> "int", named |-> TRUE],
     MultiSelect |-> [name |-> "airtable.MultiSelect", kind |-> "slice", named |-> TRUE],
     strings |-> [name |-> "[]string", kind |-> "slice", named |-> FALSE],
     nil |-> [name |-> "<nil>", kind |-> "invalid", named |-> FALSE]]

\* type CreateDeleteRecord's Fields, with a member of type Rating:
\* struct { Name string; Checked bool; Rating Rating; Multi MultiSelect }
NewRecordType ==
    [Name |-> GoTypes.string, Checked |-> GoTypes.bool, Rating |-> GoTypes.Rating,
     Multi |-> GoTypes.MultiSelect]

\* whether reflect's Set takes a value of type src for a member of type dst:
\* the types are identical, or they have the same underlying type and one of
\* them is not a named type
assignable(dst, src) ==
    \/ dst = src
    \/ dst.kind = src.kind /\ src.kind = "slice" /\ (~dst.named \/ ~src.named)

\* f.Set(val) that makes a new Fields value for the member it sets
setFieldFresh(fields, k, val) == [m \in DOMAIN fields |-> IF m = k THEN val.v ELSE ""]

\* f.Set(val): the member k of Fields holds the value, the others are as before
setField(fields, k, val) == [fields EXCEPT ![k] = val.v]

\* one iteration of the loop of NewRecord, for key k: the error it panics
\* with ("nil" when it sets the member)
newRecordStep(k, val) ==
    IF k \notin DOMAIN NewRecordType THEN "airtable.NewRecord: cannot find field"
    ELSE IF NewRecordType[k].kind # val.type.kind THEN "airtable.NewRecord: type error setting"
    ELSE IF ~assignable(NewRecordType[k], val.type) THEN "reflect.Set: value is not assignable"
    ELSE "nil"

\* NewRecord(container, data) on the Fields of the container: the loop ranges
\* over the map data in an order the runtime chooses, so the outcomes are
\* those of every order of the keys `todo` still to come.  An outcome is the
\* Fields at the return or at the panic, and the panic ("nil" for a return).
RECURSIVE NewRecord(_, _, _)
NewRecord(fields, data, todo) ==
    IF todo = {} THEN { [fields |-> fields, err |-> "nil"] }
    ELSE UNION { IF newRecordStep(k, data[k]) # "nil"
                 THEN { [fields |-> fields, err |-> newRecordStep(k, data[k])] }
                 ELSE NewRecord(setField(fields, k, data[k]), data, todo \ {k}) :
                 k \in todo }

(* ------------------------ the wire name of a member ------------------- *)

\* the forms of the json tag of a member: none, a name, a name with an
\* option, an option alone, the skip sign, and the empty tag
TagForms == {NoTag, "When?", "notes,omitempty", ",omitempty", "-", ""}

\* encoding/json's parseTag on the tags of this model: the text before the
\* first comma
tagName(tag) ==
    CASE tag = "notes,omitempty" -> "notes"
      [] tag = ",omitempty" -> ""
      [] OTHER -> tag

\* encoding/json has no key for the member: it is neither written nor read
Omitted == "<omitted>"

\* the key encoding/json writes a member under and reads it from: the member
\* is left out when its tag is "-"; the key is the name of the tag, and the
\* member's own name when there is no tag or the tag has no name
jsonKey(n, t) ==
    IF t[n] = NoTag THEN n
    ELSE IF t[n] = "-" THEN Omitted
    ELSE IF tagName(t[n]) = "" THEN n
    ELSE tagName(t[n])

(* -------------------------------- state ------------------------------- *)

VARIABLES
    rec,      \* the record value the caller passes to Get/Create/Update/Delete
    list,     \* the collection the caller passes to List
    options,  \* the Options value the caller passes to List
    pc,       \* where the running List is: "idle", "request" or "response"
    call,     \* the call made last: operation, argument shape, result, response
    reqs,     \* the requests handed to the HTTP client during that call
    pre,      \* rec as it was when that call started
    list0,    \* list as it was when that call started
    served,   \* the list pages the service has served during that call
    fr,       \* a FormulaResult member of a record value
    fcall,    \* the decode made last into fr: kind, wire value, result
    val,      \* what fr.Value() returned, when it was called after that decode
    check,    \* the validation made last: function, argument, outcome
    trip,     \* a record written and read back: the record, the body, the result
    enc,      \* the Options value encoded last and its query string
    rq,       \* the request made last through the Client and what it returned
    nr,       \* the NewRecord call made last: the container, the data, the outcome
    wn,       \* a Fields type and the wire names of its members
    num,      \* a record with an int member and the decode made last into it
    conc      \* two calls of List that share one Options value

vars == <<rec, list, options, pc, call, reqs, pre, list0, served, fr, fcall,
          val, check, trip, enc, rq, nr, wn, num, conc>>

facade == <<rec, list, options, pc, call, reqs, pre, list0, served>>

\* the bookkeeping of the calls made outside the Table facade
\* the bookkeeping of the calls on a record value alone
more == <<nr, wn, num, conc>>

aux == <<val, check, trip, enc, rq, more>>

Call(op, arg, err, resp) == [op |-> op, arg |-> arg, err |-> err, resp |-> resp]

NoCall == Call("none", ValidRecord, "nil", Resp(FALSE, EmptyBody))

NoDecode == [op |-> "none", w |-> Absent, err |-> "nil"]

\* Value has not been called
NoValue == [called |-> FALSE, v |-> Nil, ok |-> FALSE, err |-> "nil"]

\* nothing has been validated
NoCheck == [fn |-> "none"]

\* no record has been written
NoTrip == [stage |-> "none"]

\* no Options value has been encoded
NoEncode == [o |-> EmptyOptions, done |-> FALSE, exits |-> FALSE, q |-> <<>>]

\* no request has been made through the Client
NoRequest == [done |-> FALSE]

\* the two callers that share an Options value
Callers == {1, 2}

\* A new record, an empty collection and a new Options value; no call has
\* been made.  The container of NewRecord is new and its data empty, the record
\* type has no member yet, the record with the int member is zero, and neither
\* of the two callers of List has called it.
Init ==
    /\ rec = ZeroRecord
    /\ list = <<>>
    /\ options = EmptyOptions
    /\ pc = "idle"
    /\ call = NoCall
    /\ reqs = <<>>
    /\ pre = ZeroRecord
    /\ list0 = <<>>
    /\ served = <<>>
    /\ fr = ZeroFormula
    /\ fcall = NoDecode
    /\ val = NoValue
    /\ check = NoCheck
    /\ trip = NoTrip
    /\ enc = NoEncode
    /\ rq = NoRequest
    /\ nr = [before |-> [Name |-> "", Checked |-> "", Rating |-> "", Multi |-> ""],
             data |-> <<>>, done |-> FALSE]
    /\ wn = [type |-> <<>>, done |-> FALSE]
    /\ num = [fields |-> [Name |-> "", Random |-> 0], done |-> FALSE]
    /\ conc = [offset |-> "",
               pc |-> [c \in Callers |-> "idle"],
               list |-> [c \in Callers |-> <<>>],
               reqs |-> [c \in Callers |-> <<>>],
               served |-> [c \in Callers |-> <<>>],
               err |-> [c \in Callers |-> "nil"]]

(* ------------------------------ the caller ---------------------------- *)

\* The caller makes or edits its record value between calls.
CallerRecord ==
    /\ pc = "idle"
    /\ \E r \in Records : rec' = r
    /\ call' = NoCall
    /\ reqs' = <<>>
    /\ pre' = ZeroRecord
    /\ UNCHANGED <<list, options, pc, list0, served, fr, fcall, aux>>

\* a record the caller's collection holds before a List
Earlier == [ID |-> "rec2", CreatedTime |-> ZeroTime, Fields |-> [Name |-> "a"]]

\* The caller empties its collection, or leaves earlier records in it.
CallerList ==
    /\ pc = "idle"
    /\ \E n \in 0..MaxPrev : list' = [i \in 1..n |-> Earlier]
    /\ call' = NoCall
    /\ reqs' = <<>>
    /\ list0' = <<>>
    /\ served' = <<>>
    /\ UNCHANGED <<rec, options, pc, pre, fr, fcall, aux>>

(* ----------------------- Get, Update, Create, Delete ------------------- *)

\* what a call on the record leaves of the bookkeeping of List
NoListCall ==
    list0' = <<>> /\ served' = <<>> /\ UNCHANGED <<list, options, pc, fr, fcall, aux>>

\* Table.Get(id, recordPtr): the request is made first, without a look at
\* recordPtr, and the response is unmarshalled into recordPtr.
Get ==
    /\ pc = "idle"
    /\ \E id \in {"rec2"}, a \in CallerArgs, resp \in FailedResponses \cup RecordResponses :
         LET d == decodeRecord(rec, resp.body)
             err == CASE RequestErr(resp) -> "request error"
                      [] a = ValidRecord -> d.err
                      [] unmarshalOther(a, resp.body) -> "decode error"
                      [] OTHER -> "nil"
         IN  /\ reqs' = << Req("GET", makePath(id), <<>>, NoBody) >>
             /\ rec' = IF ~RequestErr(resp) /\ a = ValidRecord THEN d.rec ELSE rec
             /\ call' = Call("Get", a, err, resp)
    /\ pre' = rec
    /\ NoListCall

\* Table.Update after its request, with the response unmarshalled into the
\* record as Create does
updateResultDecoded(r, resp) ==
    LET d == decodeRecord(r, resp.body)
    IN  IF RequestErr(resp) THEN [rec |-> r, err |-> "request error"]
        ELSE [rec |-> d.rec, err |-> d.err]

\* Table.Update after its request: the bytes of the response are dropped and
\* the error of the request is returned; the record is only read (by getID
\* and makeJSONBody).
updateResult(r, resp) ==
    [rec |-> r, err |-> IF RequestErr(resp) THEN "request error" ELSE "nil"]

\* Table.Update(recordPtr); the service answers with the record it has stored
Update ==
    /\ pc = "idle"
    /\ \E a \in CallerArgs, resp \in FailedResponses \cup RecordResponses :
         LET u == updateResult(rec, resp)
         IN  IF validateRecordArg(a) # ""
             THEN /\ reqs' = <<>>
                  /\ rec' = rec
                  /\ call' = Call("Update", a, "type error", Resp(FALSE, EmptyBody))
             ELSE /\ reqs' = << Req("PATCH", makePath(getID(rec)), Encode(EmptyOptions),
                                    makeJSONBody(rec)) >>
                  /\ rec' = u.rec
                  /\ call' = Call("Update", a, u.err, resp)
    /\ pre' = rec
    /\ NoListCall

\* Table.Create(recordPtr)
Create ==
    /\ pc = "idle"
    /\ \E a \in CallerArgs, resp \in FailedResponses \cup RecordResponses :
         LET d == decodeRecord(rec, resp.body)
         IN  IF validateRecordArg(a) # ""
             THEN /\ reqs' = <<>>
                  /\ rec' = rec
                  /\ call' = Call("Create", a, "type error", Resp(FALSE, EmptyBody))
             ELSE /\ reqs' = << Req("POST", makePath(""), Encode(EmptyOptions),
                                    makeJSONBody(rec)) >>
                  /\ rec' = IF RequestErr(resp) THEN rec ELSE d.rec
                  /\ call' = Call("Create", a,
                                  IF RequestErr(resp) THEN "request error" ELSE d.err, resp)
    /\ pre' = rec
    /\ NoListCall

\* Table.Delete after its request, with the record marked as deleted as soon
\* as the request returned without error
deleteResultUnconfirmed(r, resp) ==
    LET d == decodeDelete(resp.body)
        err == CASE RequestErr(resp) -> "request error"
                 [] d.err -> "decode error"
                 [] ~d.Deleted -> "not deleted"
                 [] OTHER -> "nil"
    IN  [rec |-> IF RequestErr(resp) THEN r ELSE markAsDeleted(r), err |-> err]

\* Table.Delete after its request: the error of the request, of unpacking the
\* response or of a response that does not say `deleted: true` is returned
\* with the record untouched; otherwise the record is marked as deleted.
deleteResult(r, resp) ==
    LET d == decodeDelete(resp.body)
        err == CASE RequestErr(resp) -> "request error"
                 [] d.err -> "decode error"
                 [] ~d.Deleted -> "not deleted"
                 [] OTHER -> "nil"
    IN  [rec |-> IF err = "nil" THEN markAsDeleted(r) ELSE r, err |-> err]

\* Table.Delete(recordPtr)
Delete ==
    /\ pc = "idle"
    /\ \E a \in CallerArgs, resp \in FailedResponses \cup DeleteResponses :
         LET d == deleteResult(rec, resp)
         IN  IF validateRecordArg(a) # ""
             THEN /\ reqs' = <<>>
                  /\ rec' = rec
                  /\ call' = Call("Delete", a, "type error", Resp(FALSE, EmptyBody))
             ELSE /\ reqs' = << Req("DELETE", makePath(getID(rec)), Encode(EmptyOptions),
                                    NoBody) >>
                  /\ rec' = d.rec
                  /\ call' = Call("Delete", a, d.err, resp)
    /\ pre' = rec
    /\ NoListCall

(* --------------------------------- List ------------------------------- *)

\* the loop of List that breaks after the first page, as under a cap of one
\* page
loopEndsAtOnce(offset) == TRUE

\* the loop of List that never breaks
loopEndsNever(offset) == FALSE

\* the loop of List breaks when the offset it has just stored is empty
loopEnds(offset) == offset = ""

\* Table.List(listPtr, options) up to its loop: the argument is validated;
\* nil options are replaced by a new Options value; options.offset is not
\* touched.
ListCall ==
    /\ pc = "idle"
    /\ Len(list) <= MaxPrev
    /\ \E a \in ListArgs, nilOptions \in BOOLEAN :
         IF validateListArg(a) # ""
         THEN /\ call' = Call("List", a, "type error", Resp(FALSE, EmptyBody))
              /\ UNCHANGED <<options, pc>>
         ELSE /\ call' = Call("List", a, "running", Resp(FALSE, EmptyBody))
              /\ options' = IF nilOptions THEN EmptyOptions ELSE options
              /\ pc' = "request"
    /\ reqs' = <<>>
    /\ list0' = list
    /\ served' = <<>>
    /\ pre' = ZeroRecord
    /\ UNCHANGED <<rec, list, fr, fcall, aux>>

\* The loop of List hands the request for the next page to the HTTP client:
\* GET on the table's path with the query options.Encode().  makeURL calls
\* Encode before the request is made; a getFieldName that finds no such field
\* ends the process there.
ListRequest ==
    /\ pc = "request"
    /\ IF encodeExits(options)
       THEN /\ call' = [call EXCEPT !.err = "fatal"]
            /\ pc' = "exited"
            /\ reqs' = reqs
       ELSE /\ reqs' = Append(reqs, Req("GET", makePath(""), Encode(options), NoBody))
            /\ pc' = "response"
            /\ call' = call
    /\ UNCHANGED <<rec, list, options, pre, list0, served, fr, fcall, aux>>

\* The rest of one iteration of the loop, on the response to the request: an
\* error of the request or of unmarshalling the page returns it; otherwise the
\* page's records are appended, options.offset is set to the page's offset and
\* the loop ends when that is empty.  The service serves at most MaxPages
\* pages to one call of List, the last of them without offset.
ListResponse(pages) ==
    /\ pc = "response"
    /\ \E resp \in FailedResponses \cup {Resp(FALSE, p) : p \in pages} :
         LET d == decodeRecords(resp.body.records)
             offset == getOffset(resp.body)
         IN  IF RequestErr(resp)
             THEN /\ call' = [call EXCEPT !.err = "request error", !.resp = resp]
                  /\ pc' = "idle"
                  /\ UNCHANGED <<list, options, served>>
             ELSE /\ Len(served) < MaxPages
                  /\ Len(served) + 1 = MaxPages => offset = ""
                  /\ served' = Append(served, resp.body)
                  /\ IF d.err # "nil"
                     THEN /\ call' = [call EXCEPT !.err = d.err, !.resp = resp]
                          /\ pc' = "idle"
                          /\ UNCHANGED <<list, options>>
                     ELSE /\ list' = appendRecordsToList(list, d.recs)
                          /\ options' = [options EXCEPT !.offset = offset]
                          /\ pc' = IF loopEnds(offset) THEN "idle" ELSE "request"
                          /\ call' = [call EXCEPT !.resp = resp,
                                        !.err = IF loopEnds(offset) THEN "nil" ELSE "running"]
    /\ UNCHANGED <<rec, reqs, pre, list0, fr, fcall, aux>>

ListResponseFew == ListResponse(FewPages)

ListResponseAny == ListResponse(ListPages)

\* the Options values the caller of List makes: sorted and selected by
\* members with and without a json tag, by a name that is no member, a view
\* with a cap, and the cap of one record of TestUpdateRecord
FewOptions ==
    { [EmptyOptions EXCEPT !.sort = << <<"When", "asc">> >>, !.fields = <<"Rating">>],
      [EmptyOptions EXCEPT !.sort = << <<"Rating", "desc">>, <<"When", "asc">> >>,
                           !.fields = <<"Name", "When">>],
      [EmptyOptions EXCEPT !.sort = << <<"Missing", "asc">> >>],
      [EmptyOptions EXCEPT !.fields = <<"When", "Missing">>],
      [EmptyOptions EXCEPT !.view = "odds", !.maxRecords = 3],
      [EmptyOptions EXCEPT !.maxRecords = 1] }

\* The caller makes the Options value for its next List.
CallerOptions ==
    /\ pc = "idle"
    /\ \E o \in FewOptions : options' = o
    /\ call' = NoCall
    /\ reqs' = <<>>
    /\ list0' = <<>>
    /\ served' = <<>>
    /\ UNCHANGED <<rec, list, pc, pre, fr, fcall, aux>>

(* ------------------------- encoding an Options value ------------------ *)

\* the (field, direction) pairs of a sort list
SortEntries == { <<"When", "asc">>, <<"Rating", "desc">>, <<"Missing", "asc">> }

\* the names of a field-selection list
SelectNames == {"When", "Name", "Missing"}

\* an Options value that is being built
Building(o) == [o |-> o, done |-> FALSE, exits |-> FALSE, q |-> <<>>]

\* The caller appends a pair to the Sort of an Options value.
OptionsAddSort ==
    /\ Len(enc.o.sort) < MaxSort
    /\ \E s \in SortEntries : enc' = Building([enc.o EXCEPT !.sort = Append(@, s)])
    /\ UNCHANGED <<facade, more, fr, fcall, val, check, trip, rq>>

\* The caller appends a name to the Fields of an Options value.
OptionsAddField ==
    /\ Len(enc.o.fields) < MaxSelect
    /\ \E n \in SelectNames : enc' = Building([enc.o EXCEPT !.fields = Append(@, n)])
    /\ UNCHANGED <<facade, more, fr, fcall, val, check, trip, rq>>

\* The other members of the Options value are set: typecast, filter, view
\* and cap by the caller, the cursor by a List that is under way.
OptionsSet ==
    /\ \E c \in {"", "itr1"}, t \in BOOLEAN, f \in {"", Formula1}, v \in {"", "odds"},
          n \in {0, 3} :
         enc' = Building([enc.o EXCEPT !.offset = c, !.typecast = t, !.filter = f,
                                       !.view = v, !.maxRecords = n])
    /\ UNCHANGED <<facade, more, fr, fcall, val, check, trip, rq>>

\* Options.Encode() on the Options value
EncodeOptions ==
    /\ ~enc.done
    /\ enc' = [o |-> enc.o, done |-> TRUE, exits |-> encodeExits(enc.o),
               q |-> IF encodeExits(enc.o) THEN <<>> ELSE Encode(enc.o)]
    /\ UNCHANGED <<facade, more, fr, fcall, val, check, trip, rq>>

(* ------------------------ decoding a FormulaResult -------------------- *)

\* numbers, strings and error texts a formula cell holds on the wire
FormulaWire ==
    {Absent, JNull, JBool("true"), JObj}
      \cup {JNum(n) : n \in {"3.5", "7"}}
      \cup {JStr(x) : x \in {"abc", "x"}}
      \cup {JErrObj(x) : x \in {"#ERROR", "#N/A"}}

\* encoding/json decoding the member of `fields` that belongs to a struct
\* member of type FormulaResult: when the wire carries the member, the
\* UnmarshalJSON of the struct's member is called with its value, null too.
decodeFormula(f, w) ==
    IF w.t = "absent" THEN [err |-> "nil", f |-> f] ELSE UnmarshalJSON(f, w)

\* Get or Create decodes a response into the record value the caller holds:
\* json.Unmarshal works on the FormulaResult the record already has.
DecodeExisting ==
    /\ fcall.err # "fatal"
    /\ \E w \in FormulaWire :
         LET d == decodeFormula(fr, w)
         IN  /\ fr' = d.f
             /\ fcall' = [op |-> "existing", w |-> w, err |-> d.err]
    /\ val' = NoValue
    /\ UNCHANGED <<facade, more, check, trip, enc, rq>>

\* A response is decoded into a record value that is new: an element of the
\* fresh response container of List, or a record the caller has just declared.
DecodeFresh ==
    /\ fcall.err # "fatal"
    /\ \E w \in FormulaWire :
         LET d == decodeFormula(ZeroFormula, w)
         IN  /\ fr' = d.f
             /\ fcall' = [op |-> "fresh", w |-> w, err |-> d.err]
    /\ val' = NoValue
    /\ UNCHANGED <<facade, more, check, trip, enc, rq>>

\* The caller reads the record's formula cell with fr.Value().
CallValue ==
    /\ fcall.err # "fatal"
    /\ val' = [called |-> TRUE] @@ Value(fr)
    /\ UNCHANGED <<facade, more, fr, fcall, check, trip, enc, rq>>

(* -------------------- writing a record and reading it ----------------- *)

\* the FormulaResult values a record holds
FormulaValues ==
    { ZeroFormula,
      [ZeroFormula EXCEPT !.Number = "3.5"],
      [ZeroFormula EXCEPT !.String = "abc"],
      [ZeroFormula EXCEPT !.Error = "#ERROR"] }

\* type M struct { airtable.Record; Fields struct { Name string; Formula FormulaResult } }
FormulaRecords ==
    [ID : IDs \cup {""}, CreatedTime : {ZeroTime, T1},
     Fields : [Name : Names, Formula : FormulaValues]]

\* the zero value of the record type of r
ZeroOf(r) ==
    IF "Formula" \in DOMAIN r.Fields
    THEN [ID |-> "", CreatedTime |-> ZeroTime,
          Fields |-> [Name |-> "", Formula |-> ZeroFormula]]
    ELSE ZeroRecord

\* json.Unmarshal(bytes, recordPtr) for a single-record envelope, into a
\* record of either type: the members of decodeRecord, and for a Formula
\* member the UnmarshalJSON of FormulaResult, whose panic or log.Fatal ends
\* the decoding.
decodeAny(r, w) ==
    LET plain == decodeRecord(r, w)
        f == decodeFormula(r.Fields.Formula, w.fields.Formula)
    IN  IF "Formula" \notin DOMAIN r.Fields THEN plain
        ELSE IF f.err # "nil" THEN [rec |-> r, err |-> f.err]
        ELSE [rec |-> [plain.rec EXCEPT !.Fields = plain.rec.Fields @@ [Formula |-> f.f]],
              err |-> plain.err]

\* Create or Update builds the body of its request from the caller's record.
TripWrite ==
    /\ \E r \in Records \cup FormulaRecords :
         trip' = [stage |-> "written", orig |-> r, body |-> makeJSONBody(r)]
    /\ UNCHANGED <<facade, more, fr, fcall, val, check, enc, rq>>

\* The service stores the fields of the body, and Get decodes the envelope
\* {id, fields, createdTime} made of them into a new record of the same type.
TripRead ==
    /\ trip.stage = "written"
    /\ LET w == [EmptyBody EXCEPT !.id = JStr("rec1"), !.createdTime = JStr(T1),
                                   !.fields = trip.body[1].fields]
           d == decodeAny(ZeroOf(trip.orig), w)
       IN  trip' = [stage |-> "read", orig |-> trip.orig, body |-> trip.body,
                    back |-> d.rec, err |-> d.err]
    /\ UNCHANGED <<facade, more, fr, fcall, val, check, enc, rq>>

(* ----------------------- a request through the Client ----------------- *)

\* what a response carries as its top-level member `error`
ErrorMembers ==
    { Absent, JNull, JStr("NOT_FOUND"), JObj, JNum("5"), JBool("false"),
      JErrInfo("TABLE_NOT_FOUND", "Could not find table") }

\* the responses to a request: a failed exchange, and bodies with and without
\* an `error`
AnyResponses ==
    { Resp(TRUE, EmptyBody) }
      \cup { Resp(FALSE, [Envelope(JStr("rec1"), JStr("a"), JStr(T1)) EXCEPT !.error = x]) :
                x \in ErrorMembers }

\* Client.RequestWithBody called by the facade or by the user of the Client
ClientRequest ==
    /\ \E method \in {"GET", "POST", "PATCH", "DELETE"},
          endpoint \in {makePath(""), makePath("rec1")},
          o \in {EmptyOptions, [EmptyOptions EXCEPT !.offset = "itr1"]},
          resp \in AnyResponses :
         LET r == RequestWithBody(method, endpoint, Encode(o), resp)
         IN  rq' = [done |-> TRUE, method |-> method, endpoint |-> endpoint,
                    query |-> Encode(o), resp |-> resp, bytes |-> r.bytes, err |-> r.err]
    /\ UNCHANGED <<facade, more, fr, fcall, val, check, trip, enc>>

(* ------------------------- filling a new record ----------------------- *)

\* the values of the map of data, each with its type as reflect.ValueOf
\* gives it
DataValues ==
    { [type |-> GoTypes.string, v |-> "ya"], [type |-> GoTypes.bool, v |-> "true"],
      [type |-> GoTypes.int, v |-> "4"], [type |-> GoTypes.Rating, v |-> "4"],
      [type |-> GoTypes.MultiSelect, v |-> "test-one,test-two"],
      [type |-> GoTypes.strings, v |-> "test-one,test-two"],
      [type |-> GoTypes.nil, v |-> ""] }

\* The caller declares the container: a new record, or one filled before.
NewRecordContainer ==
    /\ nr.data = <<>>
    /\ \E f \in { [Name |-> "", Checked |-> "", Rating |-> "", Multi |-> ""],
                  [Name |-> "old", Checked |-> "false", Rating |-> "1", Multi |-> "old"] } :
         nr' = [before |-> f, data |-> <<>>, done |-> FALSE]
    /\ UNCHANGED <<facade, wn, num, conc, fr, fcall, val, check, trip, enc, rq>>

\* The caller writes an entry of the map airtable.Fields{...}: under the name
\* of a member, or under a name that is none.
NewRecordData ==
    /\ Cardinality(DOMAIN nr.data) < MaxData
    /\ \E k \in {"Name", "Checked", "Rating", "Multi", "Missing"} \ DOMAIN nr.data,
          v \in DataValues :
         nr' = [before |-> nr.before, data |-> nr.data @@ (k :> v), done |-> FALSE]
    /\ UNCHANGED <<facade, wn, num, conc, fr, fcall, val, check, trip, enc, rq>>

\* NewRecord(&record, data)
CallNewRecord ==
    /\ ~nr.done
    /\ \E out \in NewRecord(nr.before, nr.data, DOMAIN nr.data) :
         nr' = [before |-> nr.before, data |-> nr.data, done |-> TRUE,
                after |-> out.fields, err |-> out.err]
    /\ UNCHANGED <<facade, wn, num, conc, fr, fcall, val, check, trip, enc, rq>>

(* -------------------- the wire names of a Fields type ----------------- *)

\* The caller declares a member of the Fields of its record type, with a
\* json tag of one of the forms; no two members have the same tag.
DeclareMember ==
    /\ Cardinality(DOMAIN wn.type) < MaxMembers
    /\ \E n \in {"When", "Name", "Notes"} \ DOMAIN wn.type, tag \in TagForms :
         /\ \A m \in DOMAIN wn.type : tag \in {NoTag, wn.type[m]} => tag = NoTag
         /\ wn' = [type |-> wn.type @@ (n :> tag), done |-> FALSE]
    /\ UNCHANGED <<facade, nr, num, conc, fr, fcall, val, check, trip, enc, rq>>

\* Each member is named in the Sort or Fields of a List, written by Create or
\* Update and read by Get: the name Encode passes to e, the key json.Marshal
\* writes and the key json.Unmarshal reads.
WireNamesOfType ==
    /\ ~wn.done
    /\ wn.type # <<>>
    /\ wn' = [type |-> wn.type, done |-> TRUE,
              sent |-> [n \in DOMAIN wn.type |-> getFieldName(n, wn.type)],
              written |-> [n \in DOMAIN wn.type |-> jsonKey(n, wn.type)],
              read |-> [n \in DOMAIN wn.type |-> jsonKey(n, wn.type)]]
    /\ UNCHANGED <<facade, nr, num, conc, fr, fcall, val, check, trip, enc, rq>>

(* ---------------------- decoding into an int member ------------------- *)

\* what a response carries for the member Random
WireNumbers ==
    {Absent, JNull, JStr("7"), JBool("true"), JObj}
      \cup {JNum(x) : x \in DOMAIN IntegerLiterals \cup {"3.5", "-2.5", "4.0", "1e2"}}

\* Get or Create unmarshals a response into the record the caller holds,
\* whose Fields has the int member Random.
DecodeNumbers ==
    /\ \E wname \in WireNames, wrandom \in WireNumbers :
         LET w == [Name |-> wname, Random |-> wrandom]
             d == decodeNumberFields(num.fields, w)
         IN  num' = [fields |-> d.fields, done |-> TRUE, before |-> num.fields,
                     w |-> w, err |-> d.err]
    /\ UNCHANGED <<facade, nr, wn, conc, fr, fcall, val, check, trip, enc, rq>>

(* ------------------ two Lists that share an Options value ------------- *)

\* Caller c calls List(&list, &options) with its own collection and the
\* shared Options value; the loop is entered.
ConcListCall(c) ==
    /\ conc.pc[c] = "idle"
    /\ conc' = [conc EXCEPT !.pc[c] = "request"]
    /\ UNCHANGED <<facade, nr, wn, num, fr, fcall, val, check, trip, enc, rq>>

\* The loop of caller c makes its request, with the query the shared Options
\* value encodes to at this moment.
ConcRequest(c) ==
    /\ conc.pc[c] = "request"
    /\ conc' = [conc EXCEPT !.pc[c] = "response",
                  !.reqs[c] = Append(@, Req("GET", makePath(""), Encode([EmptyOptions EXCEPT !.offset = conc.offset]), NoBody))]
    /\ UNCHANGED <<facade, nr, wn, num, fr, fcall, val, check, trip, enc, rq>>

\* The request of caller c is answered: an error is returned; a page is
\* unmarshalled into the container of this call, its records are appended to
\* the caller's collection and its offset is stored in the shared Options
\* value.  The service serves at most MaxPages pages to a call, the last of
\* them without offset; caller 1 lists a table of records W1 and is handed
\* the cursor itr1, caller 2 a table of records W2 and the cursor itr2.
ConcResponse(c) ==
    /\ conc.pc[c] = "response"
    /\ \E resp \in {Resp(TRUE, EmptyBody)}
                     \cup {Resp(FALSE, Page(IF c = 1 THEN <<W1>> ELSE <<W2>>, o)) :
                              o \in {Absent, JStr(IF c = 1 THEN "itr1" ELSE "itr2")}} :
         IF RequestErr(resp)
         THEN conc' = [conc EXCEPT !.pc[c] = "done", !.err[c] = "request error"]
         ELSE /\ Len(conc.served[c]) < MaxPages
              /\ Len(conc.served[c]) + 1 = MaxPages => getOffset(resp.body) = ""
              /\ conc' = [conc EXCEPT !.pc[c] = "test",
                            !.served[c] = Append(@, resp.body),
                            !.list[c] = appendRecordsToList(@, decodeRecords(resp.body.records).recs),
                            !.offset = getOffset(resp.body)]
    /\ UNCHANGED <<facade, nr, wn, num, fr, fcall, val, check, trip, enc, rq>>

\* The loop of caller c reads the offset of the shared Options value and
\* breaks when it is empty.
ConcTest(c) ==
    /\ conc.pc[c] = "test"
    /\ conc' = [conc EXCEPT !.pc[c] = IF loopEnds(conc.offset) THEN "done" ELSE "request"]
    /\ UNCHANGED <<facade, nr, wn, num, fr, fcall, val, check, trip, enc, rq>>

(* ------------------------ validating an argument ---------------------- *)

\* validateRecordArg(recordPtr) on any argument
ValidateRecord ==
    /\ \E a \in AnyArgs :
         check' = [fn |-> "validateRecordArg", arg |-> a, msg |-> validateRecordArg(a)]
    /\ UNCHANGED <<facade, more, fr, fcall, val, trip, enc, rq>>

\* validateListArg(listPtr) on any argument
ValidateList ==
    /\ \E a \in AnyArgs :
         check' = [fn |-> "validateListArg", arg |-> a, msg |-> validateListArg(a)]
    /\ UNCHANGED <<facade, more, fr, fcall, val, trip, enc, rq>>

(* ---------------------------- specifications -------------------------- *)

\* every operation of the facade
Next ==
    \/ CallerRecord
    \/ CallerList
    \/ Get
    \/ Update
    \/ Create
    \/ Delete
    \/ ListCall
    \/ ListRequest
    \/ ListResponseFew

Spec == Init /\ [][Next]_vars

\* List alone, against a service with longer pages
ListNext ==
    \/ CallerList
    \/ ListCall
    \/ ListRequest
    \/ ListResponseAny

ListSpec == Init /\ [][ListNext]_vars

\* List when the HTTP client answers every request and the loop is scheduled
FairListSpec == ListSpec /\ WF_vars(ListRequest) /\ WF_vars(ListResponseAny)

\* the decodes into one FormulaResult
FormulaNext ==
    \/ DecodeExisting
    \/ DecodeFresh
    \/ CallValue

FormulaSpec == Init /\ [][FormulaNext]_vars

\* List with the Options values of a caller
QueryNext ==
    \/ CallerOptions
    \/ CallerList
    \/ ListCall
    \/ ListRequest
    \/ ListResponseFew

QuerySpec == Init /\ [][QueryNext]_vars

\* Options values built and encoded
EncodeNext ==
    \/ OptionsAddSort
    \/ OptionsAddField
    \/ OptionsSet
    \/ EncodeOptions

EncodeSpec == Init /\ [][EncodeNext]_vars

\* requests through the Client
RequestNext ==
    \/ ClientRequest

RequestSpec == Init /\ [][RequestNext]_vars

\* records written and read back
TripNext ==
    \/ TripWrite
    \/ TripRead

TripSpec == Init /\ [][TripNext]_vars

\* the validation of arguments of any type
ValidateNext ==
    \/ ValidateRecord
    \/ ValidateList

ValidateSpec == Init /\ [][ValidateNext]_vars

\* records filled by NewRecord
NewRecordNext ==
    \/ NewRecordContainer
    \/ NewRecordData
    \/ CallNewRecord

NewRecordSpec == Init /\ [][NewRecordNext]_vars

\* record types declared and their members named on the wire
NamesNext ==
    \/ DeclareMember
    \/ WireNamesOfType

NamesSpec == Init /\ [][NamesNext]_vars

\* decodes into a record with an int member
NumbersNext ==
    \/ DecodeNumbers

NumbersSpec == Init /\ [][NumbersNext]_vars

\* two calls of List with one Options value, in any interleaving
ConcNext ==
    \E c \in Callers :
        \/ ConcListCall(c)
        \/ ConcRequest(c)
        \/ ConcResponse(c)
        \/ ConcTest(c)

ConcSpec == Init /\ [][ConcNext]_vars

(* ------------------------------- claims ------------------------------- *)

\* the wire records of a sequence of pages, in page order
RECURSIVE AllRecords(_)
AllRecords(pages) ==
    IF pages = <<>> THEN <<>> ELSE Head(pages).records \o AllRecords(Tail(pages))

\* the cursor a request carries in its query: "" when it carries none
CursorOf(req) == IF req.query = <<>> THEN "" ELSE req.query[1][2]

\* List has returned nil
ListReturnedNil == call.op = "List" /\ pc = "idle" /\ call.err = "nil"

\* List has returned the error of a request or of unmarshalling a page
ListReturnedError ==
    call.op = "List" /\ pc = "idle" /\ call.err \in {"request error", "decode error"}

\* the pages served to the call of List that were unmarshalled without error
GoodPages ==
    IF call.err = "decode error" THEN SubSeq(served, 1, Len(served) - 1) ELSE served

\* the pages served form a chain: each page's offset is the cursor of the
\* next request, and the last page has no offset
PageChain ==
    /\ served # <<>>
    /\ Len(reqs) = Len(served)
    /\ \A k \in 1..(Len(served) - 1) : getOffset(served[k]) = CursorOf(reqs[k + 1])
    /\ getOffset(served[Len(served)]) = ""

\* C1: when List has returned nil after a chain of pages (each page's offset
\* the cursor of the next request, the last page without offset), the
\* caller's collection is what it held before the call followed by the
\* records of all pages, in page order and in the order within each page.
C1_ListConcatenatesPages ==
    (ListReturnedNil /\ PageChain)
        => list = list0 \o decodeRecords(AllRecords(served)).recs

\* C1 witness: List has returned nil after two pages, the first of two
\* records, into a collection that held a record before.
C1_Witness ==
    /\ ListReturnedNil
    /\ PageChain
    /\ list0 # <<>>
    /\ Len(served) = 2
    /\ served[1].records = <<W2, W1>>
    /\ served[2].records = <<W1>>
    /\ Len(list) = 4

\* C7: when a request of List or the unmarshalling of a page has failed, List
\* has returned that error without a further request, and the collection is
\* what it held before the call followed by the records of the pages before
\* the failing one; no record of the failing page is in it.
C7_ListErrorKeepsEarlierPages ==
    ListReturnedError
        => /\ list = list0 \o decodeRecords(AllRecords(GoodPages)).recs
           /\ Len(reqs) = Len(GoodPages) + 1

\* C7 witness: the second page of a List did not unmarshal, after a first
\* page of two records.
C7_Witness ==
    /\ ListReturnedError
    /\ call.err = "decode error"
    /\ Len(served) = 2
    /\ served[1].records = <<W1, W2>>
    /\ served[2].records = <<W1, W3>>
    /\ Len(list) = Len(list0) + 2

\* the page served last to the running List was unmarshalled and has no offset
LastPageIsFinal ==
    /\ served # <<>>
    /\ decodeRecords(served[Len(served)].records).err = "nil"
    /\ getOffset(served[Len(served)]) = ""

\* C8: every call of List returns; it has returned nil exactly when a page
\* without offset has been served and unmarshalled, and then it has made one
\* request per page served.
C8_ListTerminates ==
    /\ (pc # "idle") ~> (pc = "idle")
    /\ [](call.op = "List" /\ call.arg = ValidList => (LastPageIsFinal <=> ListReturnedNil))
    /\ [](ListReturnedNil => Len(reqs) = Len(served))

\* C8 witness: List has returned nil after as many pages as the service
\* serves to one call.
C8_Witness ==
    /\ ListReturnedNil
    /\ Len(served) = MaxPages
    /\ Len(reqs) = MaxPages

\* the argument lacks a Fields member that is a struct, or has an ID member
\* that is not a string
BadShape(a) == a.fields # "struct" \/ a.id \notin {"absent", "string"}

\* C2: a call of Get, List, Create, Update or Delete whose argument lacks a
\* Fields struct member or has an ID member that is not a string fails with a
\* type error, and no request is handed to the HTTP client during the call.
C2_BadShapeMakesNoRequest ==
    (call.op \in {"Get", "List", "Create", "Update", "Delete"} /\ BadShape(call.arg))
        => (call.err = "type error" /\ reqs = <<>>)

\* C3: after Delete has returned nil, the caller's record has an empty ID and
\* the zero CreatedTime.
C3_DeleteClearsRecord ==
    (call.op = "Delete" /\ call.err = "nil")
        => (rec.ID = "" /\ rec.CreatedTime = ZeroTime)

\* C3 witness: Delete has returned nil for a record that had an ID and a
\* CreatedTime, on a response that says `deleted: true`.
C3_Witness ==
    /\ call.op = "Delete"
    /\ call.err = "nil"
    /\ call.resp.body.deleted = JBool("true")
    /\ pre.ID = "rec1"
    /\ pre.CreatedTime = T1
    /\ rec.ID = ""

\* C4: whenever Delete has returned an error (the request failed, or the
\* response did not confirm the deletion), the caller's record has the ID and
\* the CreatedTime it had before the call.
C4_DeleteErrorKeepsRecord ==
    (call.op = "Delete" /\ call.err # "nil")
        => (rec.ID = pre.ID /\ rec.CreatedTime = pre.CreatedTime)

\* C4 witness: Delete of a record with an ID and a CreatedTime has returned
\* an error on a response that says `deleted: false`.
C4_Witness ==
    /\ call.op = "Delete"
    /\ call.err = "not deleted"
    /\ call.resp.body.deleted = JBool("false")
    /\ pre.ID = "rec1"
    /\ pre.CreatedTime = T1
    /\ rec = pre

\* C5: after Create has returned nil, the record the caller passed in holds
\* what the response carries: its id as ID, its createdTime as CreatedTime and
\* the members of its fields in Fields; a record created with an empty ID has
\* the ID the service assigned.
C5_CreateBackfillsRecord ==
    (call.op = "Create" /\ call.err = "nil")
        => LET b == call.resp.body
           IN  /\ b.id.t = "str" => rec.ID = b.id.v
               /\ b.createdTime.t = "str" => rec.CreatedTime = b.createdTime.v
               /\ b.fields.Name.t = "str" => rec.Fields.Name = b.fields.Name.v
               /\ (pre.ID = "" /\ b.id.t = "str") => rec.ID \in IDs

\* C5 witness: Create of a record without ID has returned nil on a response
\* with id, createdTime and a Name other than the one sent.
C5_Witness ==
    /\ call.op = "Create"
    /\ call.err = "nil"
    /\ pre = ZeroRecord
    /\ call.resp.body = Envelope(JStr("rec1"), JStr("a"), JStr(T1))
    /\ rec = [ID |-> "rec1", CreatedTime |-> T1, Fields |-> [Name |-> "a"]]

\* C6: Update and Delete of a record whose ID is empty return an error and
\* hand no request to the HTTP client.
C6_EmptyIDMakesNoRequest ==
    (call.op \in {"Update", "Delete"} /\ call.arg = ValidRecord /\ pre.ID = "")
        => (call.err # "nil" /\ reqs = <<>>)

\* at most one of Number, String and Error is populated
AtMostOne(f) == Cardinality({m \in {"Number", "String", "Error"} : f[m] # Nil}) <= 1

\* C9: in every state of a FormulaResult, after any sequence of decodes into
\* it, at most one of Number, String and Error is populated.
C9_FormulaAtMostOne == AtMostOne(fr)

\* C10: a decode into a fresh FormulaResult that returns nil populates the
\* one variant of the wire value's JSON type: a number only Number, a string
\* only String, an object with a string `error` only Error with that string.
C10_FreshDecodeByType ==
    (fcall.op = "fresh" /\ fcall.w.t \in {"num", "str", "errobj"})
        => /\ fcall.err = "nil"
           /\ fcall.w.t = "num" => fr = [ZeroFormula EXCEPT !.Number = fcall.w.v]
           /\ fcall.w.t = "str" => fr = [ZeroFormula EXCEPT !.String = fcall.w.v]
           /\ fcall.w.t = "errobj" => fr = [ZeroFormula EXCEPT !.Error = fcall.w.v]

\* C10 witness: a number has been decoded into a fresh FormulaResult.
C10_Witness ==
    /\ fcall.op = "fresh"
    /\ fcall.w = JNum("3.5")
    /\ fr = [Number |-> "3.5", String |-> Nil, Error |-> Nil]

\* C11: a decode of a wire value that is neither a number, nor a string, nor
\* an object with a string `error` (the boolean true, an object without
\* `error`) returns a decode error to its caller, and a fresh FormulaResult
\* has no variant populated afterwards.
C11_BadWireIsDecodeError ==
    (fcall.op # "none" /\ fcall.w.t \in {"bool", "obj"})
        => /\ fcall.err = "decode error"
           /\ fcall.op = "fresh" => fr = ZeroFormula

\* C12: Value returns (the string, true) when only String is populated, (the
\* number, true) when only Number is populated, and (nil, false) without a
\* fault when Error is populated or nothing is.
C12_ValueByVariant ==
    val.called
        => /\ val.err = "nil"
           /\ fr.Error # Nil => (val.v = Nil /\ ~val.ok)
           /\ (fr.Error = Nil /\ fr.String # Nil) => (val.v = fr.String /\ val.ok)
           /\ (fr.Error = Nil /\ fr.String = Nil /\ fr.Number # Nil)
                  => (val.v = fr.Number /\ val.ok)
           /\ fr = ZeroFormula => (val.v = Nil /\ ~val.ok)

\* check (1): the argument is a pointer
IsPointer(a) == a.ptr

\* check (2): it points to a struct; for lists, to a slice of structs
PointsToStruct(a, fn) ==
    IF fn = "validateRecordArg" THEN a.kind = "struct"
    ELSE a.kind = "slice" /\ a.elem = "struct"

\* check (3): the struct has a member Fields that is a struct
HasFieldsStruct(a) == a.fields = "struct"

\* check (4): the struct has a member ID that is a string
HasIDString(a) == a.id = "string"

\* the messages of the errors for each check, by function
CheckMessages(fn, n) ==
    LET who == IF fn = "validateRecordArg" THEN "record" ELSE "list"
    IN  CASE n = 1 /\ who = "record" ->
               {"airtable type error: recordPtr must be a pointer"}
          [] n = 1 /\ who = "list" ->
               {"airtable type error: listPtr must be a pointer"}
          [] n = 2 /\ who = "record" ->
               {"airtable type error: recordPtr must point to a struct"}
          [] n = 2 /\ who = "list" ->
               {"airtable type error: listPtr must point to a slice",
                "airtable type error: listPtr must point to a slice of structs"}
          [] n = 3 /\ who = "record" ->
               {"airtable type error: recordPtr must point to a struct with field 'Fields'",
                "airtable type error: recordPtr must point to a struct with field 'Fields' that is a struct"}
          [] n = 3 /\ who = "list" ->
               {"airtable type error: listPtr must point to a slice of structs with field 'Fields'",
                "airtable type error: listPtr must point to a slice of structs with field 'Fields' that is a struct"}
          [] n = 4 /\ who = "record" ->
               {"airtable type error: recordPtr must point to a struct with field 'ID'",
                "airtable type error: recordPtr must point to a struct with field 'ID' that is a string"}
          [] n = 4 /\ who = "list" ->
               {"airtable type error: listPtr must point to a slice of structs with field 'ID'",
                "airtable type error: listPtr must point to a slice of structs with field 'ID' that is a string"}

\* the number of the first check the argument fails, 0 when it passes all
FirstFailing(a, fn) ==
    IF ~IsPointer(a) THEN 1
    ELSE IF ~PointsToStruct(a, fn) THEN 2
    ELSE IF ~HasFieldsStruct(a) THEN 3
    ELSE IF ~HasIDString(a) THEN 4
    ELSE 0

\* C13: validateRecordArg and validateListArg reject every argument that
\* fails one of the checks (1) pointer, (2) to a struct or to a slice of
\* structs, (3) with a struct member Fields, (4) with a string member ID, with
\* the "type error" message of the first check that fails, and accept an
\* argument that passes all four.
C13_ValidationOrder ==
    check.fn # "none"
        => LET n == FirstFailing(check.arg, check.fn)
           IN  IF n = 0 THEN check.msg = ""
               ELSE check.msg \in CheckMessages(check.fn, n)

\* C13, for the arguments that are not the nil interface value
C13_ValidationOrderNonNil ==
    (check.fn # "none" /\ check.arg # NilArg)
        => LET n == FirstFailing(check.arg, check.fn)
           IN  IF n = 0 THEN check.msg = ""
               ELSE check.msg \in CheckMessages(check.fn, n)

\* C14: when the envelope whose `fields` are what makeJSONBody wrote for a
\* record has been decoded, the decoding returned nil and the record read has
\* the Fields of the record written, member by member.
C14_FieldsRoundTrip ==
    trip.stage = "read"
        => /\ trip.err = "nil"
           /\ trip.back.Fields = trip.orig.Fields

\* C14, for the records without a FormulaResult member
C14_PlainFieldsRoundTrip ==
    (trip.stage = "read" /\ trip.orig \in Records)
        => /\ trip.err = "nil"
           /\ trip.back.Fields = trip.orig.Fields

\* C15: the body of the request Create and Update make is one envelope whose
\* only member is `fields`, holding the members of the record's Fields; the
\* record's ID and CreatedTime are not in it, whatever they are.
C15_WriteBodyHoldsOnlyFields ==
    (call.op \in {"Create", "Update"} /\ reqs # <<>>)
        => /\ Len(reqs[1].body) = 1
           /\ DOMAIN reqs[1].body[1] = {"fields"}
           /\ reqs[1].body[1].fields = [Name |-> JStr(pre.Fields.Name)]

\* C15 witness: Update has sent the body of a record that has an ID and a
\* CreatedTime.
C15_Witness ==
    /\ call.op = "Update"
    /\ pre.ID = "rec1"
    /\ pre.CreatedTime = T1
    /\ Len(reqs) = 1
    /\ reqs[1].method = "PATCH"
    /\ reqs[1].body = << [fields |-> [Name |-> JStr("a")]] >>

\* the keys sort[i][field], sort[i][direction] and fields[i] as they stand in
\* a query string, percent-escaped
SortFieldKeyText(i) ==
    CASE i = 0 -> "sort%5B0%5D%5Bfield%5D"
      [] i = 1 -> "sort%5B1%5D%5Bfield%5D"
      [] i = 2 -> "sort%5B2%5D%5Bfield%5D"
      [] i = 3 -> "sort%5B3%5D%5Bfield%5D"

SortDirectionKeyText(i) ==
    CASE i = 0 -> "sort%5B0%5D%5Bdirection%5D"
      [] i = 1 -> "sort%5B1%5D%5Bdirection%5D"
      [] i = 2 -> "sort%5B2%5D%5Bdirection%5D"
      [] i = 3 -> "sort%5B3%5D%5Bdirection%5D"

FieldsKeyText(i) ==
    CASE i = 0 -> "fields%5B0%5D"
      [] i = 1 -> "fields%5B1%5D"
      [] i = 2 -> "fields%5B2%5D"
      [] i = 3 -> "fields%5B3%5D"

\* a part of a query string is a sort part, a field-selection part
IsSortPart(p) ==
    \E i \in 0..3 : p[1] \in {SortFieldKeyText(i), SortDirectionKeyText(i)}

IsFieldsPart(p) == \E i \in 0..3 : p[1] = FieldsKeyText(i)

\* the name a member of Fields goes by on the wire, percent-escaped: its
\* rename annotation when it has one, its own name otherwise
SentName(n) ==
    CASE n = "When" -> "When%3F"
      [] n = "Rating" -> "Rating"
      [] n = "Name" -> "Name"

\* the sort parts and the field-selection parts of query q are those of the
\* lists of o: entry i of either list under index i, in list order
EntriesUnderTheirIndex(o, q) ==
    LET sp == SelectSeq(q, IsSortPart)
        fp == SelectSeq(q, IsFieldsPart)
    IN  /\ Len(sp) = 2 * Len(o.sort)
        /\ \A i \in 0..(Len(o.sort) - 1) :
              /\ sp[2 * i + 1] = <<SortFieldKeyText(i), SentName(o.sort[i + 1][1])>>
              /\ sp[2 * i + 2] = <<SortDirectionKeyText(i), o.sort[i + 1][2]>>
        /\ Len(fp) = Len(o.fields)
        /\ \A i \in 0..(Len(o.fields) - 1) :
              fp[i + 1] = <<FieldsKeyText(i), SentName(o.fields[i + 1])>>

\* C16: for an Options value with N sort pairs and M selected fields, Encode
\* emits exactly N pairs of parts sort[i][field], sort[i][direction] and
\* exactly M parts fields[i]; entry i of each list stands under index i, for
\* i from 0, in list order.
C16_EncodeIndexesEntries ==
    (enc.done /\ ~enc.exits) => EntriesUnderTheirIndex(enc.o, enc.q)

\* C16 witness: an Options value with two sort pairs and two selected fields
\* has been encoded.
C16_Witness ==
    /\ enc.done
    /\ ~enc.exits
    /\ enc.o.sort = << <<"Rating", "desc">>, <<"When", "asc">> >>
    /\ enc.o.fields = <<"Name", "When">>
    /\ SelectSeq(enc.q, IsFieldsPart)
          = << <<"fields%5B0%5D", "Name">>, <<"fields%5B1%5D", "When%3F">> >>
    /\ Len(SelectSeq(enc.q, IsSortPart)) = 4

\* the place of a part in the order of the query string
Rank(p) ==
    CASE p[1] = "offset" -> 1
      [] p[1] = "typecast" -> 2
      [] p[1] = "filterByFormula" -> 3
      [] p[1] = "view" -> 4
      [] p[1] = "maxRecords" -> 5
      [] IsSortPart(p) -> 6
      [] IsFieldsPart(p) -> 7
      [] OTHER -> 0

\* the parts of q in place n
PartsOfRank(q, n) == {k \in 1..Len(q) : Rank(q[k]) = n}

\* C17: Encode emits one part for each option that is set and none for an
\* option that is not, in the order cursor, typecast, filter, view, cap, sort
\* pairs, field-selection keys; with nothing set the query is empty.
C17_EncodeOrder ==
    (enc.done /\ ~enc.exits)
        => LET o == enc.o
               q == enc.q
           IN  /\ \A k \in 1..Len(q) : Rank(q[k]) # 0
               /\ \A k \in 1..(Len(q) - 1) : Rank(q[k]) <= Rank(q[k + 1])
               /\ Cardinality(PartsOfRank(q, 1)) = IF o.offset # "" THEN 1 ELSE 0
               /\ Cardinality(PartsOfRank(q, 2)) = IF o.typecast THEN 1 ELSE 0
               /\ Cardinality(PartsOfRank(q, 3)) = IF o.filter # "" THEN 1 ELSE 0
               /\ Cardinality(PartsOfRank(q, 4)) = IF o.view # "" THEN 1 ELSE 0
               /\ Cardinality(PartsOfRank(q, 5)) = IF o.maxRecords # 0 THEN 1 ELSE 0
               /\ Cardinality(PartsOfRank(q, 6)) = 2 * Len(o.sort)
               /\ Cardinality(PartsOfRank(q, 7)) = Len(o.fields)
               /\ o = EmptyOptions => q = <<>>

\* C17 witness: an Options value with every option set has been encoded.
C17_Witness ==
    /\ enc.done
    /\ enc.o = [offset |-> "itr1", typecast |-> TRUE, filter |-> Formula1, view |-> "odds",
                maxRecords |-> 3, sort |-> << <<"When", "asc">> >>, fields |-> <<"Name">>]
    /\ enc.q = << <<"offset", "itr1">>, <<"typecast", "true">>,
                  <<"filterByFormula", "%7Bautonumber%7D+%3E+2">>, <<"view", "odds">>,
                  <<"maxRecords", "3">>, <<"sort%5B0%5D%5Bfield%5D", "When%3F">>,
                  <<"sort%5B0%5D%5Bdirection%5D", "asc">>, <<"fields%5B0%5D", "Name">> >>

NamesMissingField(o) ==
    \/ \E i \in 1..Len(o.sort) : o.sort[i][1] \notin {"When", "Rating", "Name"}
    \/ \E i \in 1..Len(o.fields) : o.fields[i] \notin {"When", "Rating", "Name"}

\* C19: a List whose Options name, in a sort entry or a selected field, a
\* field that is no member of the record's Fields makes no request and leaves
\* the caller's collection as it was; it ends in the fatal error.
C19_MissingFieldIsFatal ==
    (call.op = "List" /\ call.err # "type error" /\ NamesMissingField(options))
        => /\ reqs = <<>>
           /\ list = list0
           /\ pc \in {"request", "exited"}
           /\ pc = "exited" => call.err = "fatal"

\* C19 witness: a List into a collection that held a record, selecting a
\* field that is no member, has ended in the fatal error.
C19_Witness ==
    /\ call.op = "List"
    /\ call.err = "fatal"
    /\ pc = "exited"
    /\ options.fields = <<"When", "Missing">>
    /\ list0 # <<>>
    /\ list = list0
    /\ reqs = <<>>

\* the pieces of an error's text
Pieces(text) == {text[k] : k \in 1..Len(text)}

\* C20: a request whose response body has a non-null `error` (a string, an
\* object with type and message, or any other value) returns an
\* ErrClientRequest with the request's method, its URL and the text of the
\* `error`, which holds the message; with `error` absent or null it returns
\* no error.
C20_ErrorEnvelopeIsRequestError ==
    (rq.done /\ ~rq.resp.fail)
        => LET w == rq.resp.body.error
           IN  IF w.t \in {"absent", "null"} THEN rq.err = NoError
               ELSE /\ rq.err # NoError
                    /\ rq.err.Method = rq.method
                    /\ rq.err.URL.resource = rq.endpoint
                    /\ rq.err.URL.query = rq.query
                    /\ rq.err.URL.base = BaseID
                    /\ w.t \in {"str", "errinfo"} => w.v \in Pieces(rq.err.Err)

\* C20 witness: a DELETE of a record has been answered with the error object
\* of the service.
C20_Witness ==
    /\ rq.done
    /\ rq.method = "DELETE"
    /\ rq.endpoint = <<TableName, "rec1">>
    /\ rq.resp.body.error = JErrInfo("TABLE_NOT_FOUND", "Could not find table")
    /\ rq.err.Method = "DELETE"
    /\ "Could not find table" \in Pieces(rq.err.Err)

\* some entry of the data names no member of Fields, or holds a value whose
\* kind is not the kind of the member it names
DataMisfits(data) ==
    \E k \in DOMAIN data :
        \/ k \notin DOMAIN NewRecordType
        \/ NewRecordType[k].kind # data[k].type.kind

C21_WitnessPanic ==
    /\ nr.done
    /\ nr.err = "airtable.NewRecord: cannot find field"
    /\ "Missing" \in DOMAIN nr.data
    /\ nr.after # nr.before

\* C22: within one call of List, request k+1 carries the offset of the page
\* that answered request k, and no request follows a page whose offset is
\* empty.
C22_CursorChaining ==
    call.op = "List" =>
        \A k \in 1..Len(served) :
            /\ k + 1 <= Len(reqs) => CursorOf(reqs[k + 1]) = getOffset(served[k])
            /\ getOffset(served[k]) = "" => Len(reqs) <= k

\* C22 witness: List has returned after two requests; the first page came
\* with the offset itr2, which the second request carried, and the second
\* page came without offset.
C22_Witness ==
    /\ ListReturnedNil
    /\ Len(reqs) = 2
    /\ Len(served) = 2
    /\ getOffset(served[1]) = "itr2"
    /\ CursorOf(reqs[2]) = "itr2"
    /\ getOffset(served[2]) = ""

\* C23: the first request of every call of List carries an empty cursor,
\* whatever calls of List were made before with the same Options value.
C23_FirstRequestHasNoCursor ==
    (call.op = "List" /\ reqs # <<>>) => CursorOf(reqs[1]) = ""

\* C24: when Get or Create has unmarshalled a single-record response without
\* error, a member of Fields that the response does not carry, or carries as
\* null, holds its zero value, whatever the record held before the call.
C24_MissingMemberIsZero ==
    ( /\ call.op \in {"Get", "Create"}
      /\ call.arg = ValidRecord
      /\ call.err = "nil"
      /\ call.resp.body.fields.Name.t \in {"absent", "null"} )
        => rec.Fields.Name = ""

\* C24 for a record that is new when the call is made: the member is zero.
C24_MissingMemberOfNewRecordIsZero ==
    ( /\ call.op \in {"Get", "Create"}
      /\ call.arg = ValidRecord
      /\ call.err = "nil"
      /\ pre.Fields.Name = ""
      /\ call.resp.body.fields.Name.t \in {"absent", "null"} )
        => rec.Fields.Name = ""

\* C25: for every member of the Fields of a record type, with a json tag of
\* any form, the name Encode sends for it in sort and field-selection
\* parameters, the key it is written under and the key it is read from are
\* the same string.
C25_OneWireName ==
    wn.done =>
        \A n \in DOMAIN wn.type :
            wn.sent[n] = wn.written[n] /\ wn.written[n] = wn.read[n]

\* C25 for the members without tag and with a tag that is a name and no
\* more: the three names are the same.
C25_OneWireNameOfPlainTags ==
    wn.done =>
        \A n \in DOMAIN wn.type :
            wn.type[n] \in {NoTag, "When?"} =>
                wn.sent[n] = wn.written[n] /\ wn.written[n] = wn.read[n]

\* the request answered by resp has returned an error to the operation: the
\* exchange failed, or the body is an error envelope
ReturnedError(resp) == resp.fail \/ resp.body.error.t \notin {"absent", "null"}

\* C26: Get, Create, Update and Delete make at most one request in a call;
\* and when a request of any operation has returned an error, the operation
\* has returned a non-nil error and the failed request is the last of the
\* call (in a List, the one after the pages served).
C26_NoRequestAfterError ==
    /\ call.op \in {"Get", "Create", "Update", "Delete"} => Len(reqs) <= 1
    /\ (call.op # "none" /\ reqs # <<>> /\ ReturnedError(call.resp))
         => /\ call.err \notin {"nil", "running"}
            /\ pc = "idle"
            /\ Len(reqs) = Len(served) + 1

\* C26 witness: the second request of a List has returned an error after a
\* first page with an offset, and List has returned the error.
C26_Witness ==
    /\ call.op = "List"
    /\ ReturnedError(call.resp)
    /\ call.err = "request error"
    /\ Len(served) = 1
    /\ Len(reqs) = 2
    /\ pc = "idle"

\* C26 witness for an operation on a record: the one request of an Update
\* has failed and Update has returned the error.
C26_WitnessUpdate ==
    /\ call.op = "Update"
    /\ call.resp.fail
    /\ call.err = "request error"
    /\ Len(reqs) = 1

\* the JSON numbers of this model with a fraction or an exponent, with the
\* integer each is truncated to
Fractions == [x \in {"3.5", "-2.5", "4.0", "1e2"} |->
    CASE x = "3.5" -> 3 [] x = "-2.5" -> 0 - 2 [] x = "4.0" -> 4 [] x = "1e2" -> 100]

\* the integer a JSON number is truncated to
Truncated(x) == IF x \in DOMAIN Fractions THEN Fractions[x] ELSE IntegerLiterals[x]

\* C27: a JSON number decoded into an int member of Fields, with a fraction
\* or without, is stored truncated to an integer and no error is reported for
\* it; an error is reported only for a wire value that is not a number.
C27_FractionIsTruncated ==
    num.done
        => /\ num.w.Random.t = "num"
                => num.fields.Random = Truncated(num.w.Random.v) /\ num.err = "nil"
           /\ num.err # "nil" => num.w.Random.t \notin {"num", "absent", "null"}

\* C27 for the numbers that are integer literals: the number is stored and
\* no error is reported; a value that is not a number is an error.
C27_IntegerIsStored ==
    num.done
        => /\ (num.w.Random.t = "num" /\ num.w.Random.v \in DOMAIN IntegerLiterals)
                => num.fields.Random = IntegerLiterals[num.w.Random.v] /\ num.err = "nil"
           /\ num.w.Random.t \in {"str", "bool", "obj"}
                => num.err = "decode error" /\ num.fields.Random = num.before.Random

\* the page served last to the running List
LastServed == served[Len(served)]

\* C28: whatever cap Options.MaxRecords holds, List appends every record of
\* every page it receives and goes on until a page comes without offset: a
\* List that has returned nil holds its earlier records followed by the
\* records of all pages, the last of them without offset, and a List whose
\* last page was unmarshalled and has an offset is still running, unless its
\* next request has returned an error.
C28_CapDoesNotStopList ==
    (call.op = "List" /\ served # <<>>)
        => /\ ListReturnedNil
                => /\ list = list0 \o decodeRecords(AllRecords(served)).recs
                   /\ getOffset(LastServed) = ""
           /\ ( /\ getOffset(LastServed) # ""
                /\ decodeRecords(LastServed.records).err = "nil" )
                => \/ call.err = "running" /\ pc \in {"request", "response"}
                   \/ call.err = "request error" /\ Len(reqs) = Len(served) + 1

\* C28 witness: with a cap of one record, List has returned nil after two
\* pages and has appended the records of both.
C28_Witness ==
    /\ ListReturnedNil
    /\ options.maxRecords = 1
    /\ Len(served) = 2
    /\ Len(list) = Len(list0) + 2
    /\ \A k \in 1..Len(reqs) : \E i \in 1..Len(reqs[k].query) :
           reqs[k].query[i] = <<"maxRecords", "1">>

\* the other caller
Other(c) == CHOOSE d \in Callers : d # c

\* the cursors the pages served to caller c came with
CursorsServedTo(c) ==
    {getOffset(conc.served[c][k]) : k \in 1..Len(conc.served[c])} \ {""}

\* C29: in every interleaving of two calls of List that share one Options
\* value, no request of a call carries a cursor that came with a page served
\* to the other call, and the collection of a call that has ended holds the
\* records of the pages served to that call, in order.
C29_ConcurrentListsKeepTheirCursors ==
    \A c \in Callers :
        /\ \A k \in 1..Len(conc.reqs[c]) :
               CursorOf(conc.reqs[c][k]) \notin CursorsServedTo(Other(c))
        /\ conc.pc[c] = "done"
               => conc.list[c] = decodeRecords(AllRecords(conc.served[c])).recs

\* C29, the part on the collections: the collection of a call that has ended
\* holds the records of the pages served to that call.
C29_OwnPagesAppended ==
    \A c \in Callers :
        conc.pc[c] = "done"
            => conc.list[c] = decodeRecords(AllRecords(conc.served[c])).recs

\* C30: when Update has returned, with an error or without, or has panicked
\* on its argument, the caller's record holds the ID, the CreatedTime and the
\* Fields it held before the call.
C30_UpdateKeepsRecord ==
    call.op = "Update"
        => /\ rec.ID = pre.ID
           /\ rec.CreatedTime = pre.CreatedTime
           /\ rec.Fields = pre.Fields

\* C30 witness: Update has returned nil on a response that carries another
\* id, name and createdTime than the record, and the record is as it was.
C30_Witness ==
    /\ call.op = "Update"
    /\ call.err = "nil"
    /\ call.resp.body.id = JStr("rec1")
    /\ call.resp.body.fields.Name = JStr("a")
    /\ call.resp.body.createdTime = JStr(T1)
    /\ pre = [ID |-> "rec2", CreatedTime |-> ZeroTime, Fields |-> [Name |-> ""]]
    /\ rec = pre

\* C30 witness of the error: the request of Update has returned an error and
\* the record is as it was.
C30_WitnessError ==
    /\ call.op = "Update"
    /\ call.err = "request error"
    /\ pre.ID = "rec1"
    /\ rec = pre

====
